---- MODULE Spec2Model ----
(***************************************************************************)
(* The labeling session of theme (src/theme/theme.py, class Theme): the    *)
(* constructor with its validation and cache initialisation, and the main  *)
(* loop of run() with its skip / back / more / label dispatch, the timed   *)
(* break phase, the marked table file and the skip cache file.             *)
(*                                                                         *)
(* A text is modelled by its length (or NaN), a marked row by its pandas   *)
(* index label, its identifier and its label; select_label is None and     *)
(* write_meta is False throughout.  Indices are 0-based as in the source,  *)
(* TLA+ sequences are 1-based: row i of a table is tbl[i + 1].             *)
(***************************************************************************)
EXTENDS Integers, Sequences, FiniteSets, TLC

(***************************************************************************)
(* Bounds of the model.                                                    *)
(***************************************************************************)
\* time.time() is read in whole minutes, up to MaxTime
MaxTime == 2
\* the accumulated _chars_showed is followed up to MaxChars
MaxChars == 7
\* the process is started again (same arguments, same files) MaxRestarts times
MaxRestarts == 1

(***************************************************************************)
(* Values of the Python program.                                           *)
(***************************************************************************)
None == [t |-> "none", v |-> 0]
PyInt(n) == [t |-> "int", v |-> n]
PyFloat(n) == [t |-> "float", v |-> n]
\* a missing text (pd.notna is False)
NaN == -1

\* Python truthiness of a minutes argument: None and zero are falsy
Truthy(x) == x.t # "none" /\ x.v # 0
\* isinstance(x, int)
IsInt(x) == x.t = "int"

\* a key of id2label: a string, or a value that is not a string
StrKey(s) == [isStr |-> TRUE, s |-> s]
NonStrKey(s) == [isStr |-> FALSE, s |-> s]

\* default control keystrokes of __init__
skip_input == " "
back_input == "b"
more_input == ""
\* self._input_map
input_map == (skip_input :> "skip") @@ (back_input :> "back") @@ (more_input :> "more")

(***************************************************************************)
(* The arguments the constructor is called with.                           *)
(***************************************************************************)
Id2LabelChoices ==
    { (StrKey("1") :> "pos"),
      (StrKey("0") :> "neg") @@ (StrKey("1") :> "pos"),
      (StrKey("1") :> "pos") @@ (StrKey("back") :> "neg"),
      (StrKey("0") :> "neg") @@ (StrKey(" ") :> "pos"),
      (StrKey("0") :> "neg") @@ (NonStrKey("1") :> "pos") }

MinuteChoices == { None, PyInt(-1), PyInt(0), PyInt(1), PyFloat(1) }

\* the unmarked table: the id column and the text column (as lengths)
TableChoices ==
    { [ids |-> <<1, 2>>, text |-> <<7, 3>>],
      [ids |-> <<10, 11>>, text |-> <<NaN, 2>>],
      [ids |-> <<0, 1, 2>>, text |-> <<3, 4, 1>>] }

ShowCharsChoices == { 3 }

\* what the operator may type at a prompt of the main loop
Keystrokes == { " ", "b", "", "0", "1", "back", "x" }
\* what the operator may type when asked for a cache session
SessionInputs == { "a", "0", "7" }

VARIABLES
    cfg,               \* the constructor's arguments
    disk_marked,       \* the marked_table file: whether it exists, its rows
    disk_cache,        \* cache.json: whether it exists, its entries in order
    pc,                \* where the process is
    err,               \* the exception that ended the process, or "none"
    unmarked_indices,  \* self._unmarked_indices
    marked,            \* self._marked: rows [idx, id, label]
    marked_indices,    \* self._marked_indices
    action_history,    \* self._action_history
    chars_showed,      \* self._chars_showed
    cache,             \* self._cache: entries [name, skipped] in key order
    session_name,      \* self._session_name
    is_break,          \* self._is_break
    current_start,     \* self._current_start
    now,               \* time.time(), in minutes since the process started
    label,             \* the local label of run()
    inp,               \* the line last read by _get_user_input
    out,               \* the last thing printed for the record
    last,              \* the command entered last (e2), the one a back followed (e1),
                       \* and the record and the tables before the last command
    restarts           \* how often the process was started again

vars == << cfg, disk_marked, disk_cache, pc, err, unmarked_indices, marked,
           marked_indices, action_history, chars_showed, cache, session_name,
           is_break, current_start, now, label, inp, out, last,
           restarts >>

disk == << disk_marked, disk_cache >>
memory == << unmarked_indices, marked, marked_indices, action_history,
             chars_showed, cache, session_name >>
clock == << is_break, current_start, now >>

id2label == cfg.id2label
unmarked == cfg.table
NRows == Len(unmarked.ids)
IdOf(i) == unmarked.ids[i + 1]
TextOf(i) == unmarked.text[i + 1]

Min(a, b) == IF a <= b THEN a ELSE b

(***************************************************************************)
(* Sequences as Python lists.                                              *)
(***************************************************************************)
Range(s) == { s[j] : j \in 1..Len(s) }
Front(s) == SubSeq(s, 1, Len(s) - 1)
Last(s) == s[Len(s)]
\* list.insert(0, x); InsertAtEnd is list.append(x) in its place
InsertAtEnd(s, x) == Append(s, x)
Insert0(s, x) == <<x>> \o s
\* list.pop(0)
Pop0(s) == Tail(s)

\* dict lookup and assignment on the cache, a list of [name, skipped] entries
HasKey(c, name) == \E j \in 1..Len(c) : c[j].name = name
DictGet(c, name) == c[CHOOSE j \in 1..Len(c) : c[j].name = name].skipped
DictSet(c, name, val) ==
    IF HasKey(c, name)
    THEN [j \in 1..Len(c) |-> IF c[j].name = name
                               THEN [name |-> name, skipped |-> val] ELSE c[j]]
    ELSE Append(c, [name |-> name, skipped |-> val])

\* DataFrame.to_csv(index=False): the index labels are not written
ToCsv(m) == [j \in 1..Len(m) |-> [id |-> m[j].id, label |-> m[j].label]]
\* pd.read_csv: the rows get the index labels 0, 1, ...
ReadCsv(f) == [j \in 1..Len(f) |-> [idx |-> j - 1, id |-> f[j].id, label |-> f[j].label]]

\* the orders of the elements of a set
Perms(S) ==
    { s \in [1..Cardinality(S) -> S] :
        \A a, b \in 1..Cardinality(S) : a # b => s[a] # s[b] }

\* self._skipped is the list object cache[session_name]["skipped"]
skipped == IF HasKey(cache, session_name) THEN DictGet(cache, session_name) ELSE <<>>

(***************************************************************************)
(* Construction.                                                           *)
(***************************************************************************)
Configs ==
    [ id2label : Id2LabelChoices,
      table : TableChoices,
      show_chars : ShowCharsChoices,
      cache_skipped : BOOLEAN,
      label_session_minutes : MinuteChoices,
      break_minutes : MinuteChoices ]

\* a file that does not exist (os.path.exists is False), a file with rows
Absent == [exists |-> FALSE, rows |-> <<>>]
File(rows) == [exists |-> TRUE, rows |-> rows]

NoInput == "<none>"
\* out after a message is printed; from and to stay those of the text slice
\* printed last
Printed(kind) == [out EXCEPT !.kind = kind]
NoOutput == [kind |-> "none", from |-> 0, to |-> 0]
NoLast == [e1 |-> "none", e2 |-> "none", idx |-> -1, marked |-> <<>>, skipped |-> <<>>]

\* the fields as __init__ sets them before anything is loaded
Fresh ==
    /\ unmarked_indices = <<>>
    /\ marked = <<>>
    /\ marked_indices = <<>>
    /\ action_history = <<>>
    /\ chars_showed = 0
    /\ cache = <<>>
    /\ session_name = "default"
    /\ is_break = FALSE
    /\ current_start = 0
    /\ label = "None"
    /\ inp = NoInput
    /\ out = NoOutput
    /\ last = NoLast
    /\ err = "none"

Init ==
    /\ cfg \in Configs
    /\ disk_marked = Absent
    /\ disk_cache = Absent
    /\ pc = "new"
    /\ now = 0
    /\ restarts = 0
    /\ Fresh

\* the ValueError _check_values raises for these arguments, or "none"
check_values(c) ==
    LET lsm == c.label_session_minutes
        bm == c.break_minutes
    IN  IF \E k \in DOMAIN c.id2label : k.isStr /\ k.s \in DOMAIN input_map
        THEN "already present in commands"
        ELSE IF \E k \in DOMAIN c.id2label : ~k.isStr
        THEN "is not string"
        ELSE IF Truthy(lsm) /\ ~Truthy(bm)
        THEN "label_session_minutes exists, but break_minutes doesn't"
        ELSE IF Truthy(bm) /\ ~Truthy(lsm)
        THEN "break_minutes exists, but label_session_minutes doesn't"
        ELSE IF ~IsInt(lsm)
        THEN "label_session_minutes should be int"
        ELSE IF ~IsInt(bm)
        THEN "break_minutes should be int"
        ELSE IF lsm.v < 1
        THEN "label_session_minutes should be > 1"
        ELSE IF bm.v < 1
        THEN "break_minutes should be > 1"
        ELSE "none"

\* the queue a constructor would build by leaving out the rows whose identifier
\* is in the marked file
ShufflesOfUnmarked(n) ==
    Perms({ i \in 0..(n - 1) :
              ~\E j \in 1..Len(disk_marked.rows) : disk_marked.rows[j].id = IdOf(i) })
\* [i for i in range(len(self._unmarked))] after random.shuffle
Shuffles(n) == Perms(0..(n - 1))

\* Theme.__init__ up to the session prompt of _initialize_cache.  When
\* _check_values raises, no object is returned and the fields stay unset.
Construct ==
    /\ pc = "new"
    /\ LET e == check_values(cfg) IN
        IF e # "none"
        THEN /\ pc' = "error"
             /\ err' = e
             /\ UNCHANGED << unmarked_indices, marked, cache >>
        ELSE /\ unmarked_indices' \in Shuffles(NRows)
             /\ marked' = IF disk_marked.exists THEN ReadCsv(disk_marked.rows) ELSE <<>>
             /\ IF cfg.cache_skipped
                THEN /\ cache' = IF disk_cache.exists THEN disk_cache.rows ELSE <<>>
                     /\ pc' = "session_prompt"
                     /\ err' = "none"
                ELSE \* self._cache was never assigned
                     /\ cache' = cache
                     /\ pc' = "error"
                     /\ err' = "AttributeError"
    /\ UNCHANGED << cfg, disk, marked_indices, action_history, chars_showed,
                    session_name, clock, label, inp, out, last, restarts >>

IsNumber(s) == s \in {"0", "7"}
\* int(s)
ParseInt(s) == IF s = "0" THEN 0 ELSE 7

\* the answer to "Enter a number of an existing session or a name for a new one"
SessionInput(s) ==
    /\ pc = "session_prompt"
    /\ IF IsNumber(s) /\ ParseInt(s) >= Len(cache)
       THEN \* IndexError: asked again
            /\ session_name' = s
            /\ UNCHANGED << cache, pc >>
       ELSE LET name == IF IsNumber(s) THEN cache[ParseInt(s) + 1].name ELSE s IN
            /\ session_name' = name
            /\ cache' = DictSet(cache, name, <<>>)
            /\ pc' = "ready"
    /\ UNCHANGED << cfg, disk, err, unmarked_indices, marked, marked_indices,
                    action_history, chars_showed, clock, label, inp, out, last,
                    restarts >>

(***************************************************************************)
(* The main loop of run().                                                 *)
(***************************************************************************)
\* run() up to the first iteration
RunStart ==
    /\ pc = "ready"
    /\ pc' = "loop"
    /\ current_start' = now
    /\ label' = "None"
    /\ UNCHANGED << cfg, disk, err, memory, is_break, now, inp, out, last, restarts >>

\* a _set_current_mode that changes the phase at every call, whatever the
\* time spent in it
FlipAtEveryCall == [is_break |-> ~is_break, current_start |-> now]

\* _set_current_mode: the break flag and the phase start it leaves
set_current_mode ==
    LET lsm == cfg.label_session_minutes
        bm == cfg.break_minutes
        same == [is_break |-> is_break, current_start |-> current_start]
    IN  IF lsm = None \/ bm = None
        THEN same
        ELSE LET current_duration_min == now - current_start
                 limit_min == IF ~is_break THEN lsm.v ELSE bm.v
             IN  IF current_duration_min >= limit_min
                 THEN [is_break |-> ~is_break, current_start |-> now]
                 ELSE same

\* the mode run() sees in an iteration
ModeSeen ==
    IF cfg.label_session_minutes # None
    THEN set_current_mode
    ELSE [is_break |-> is_break, current_start |-> current_start]

\* x in series: pandas tests the index labels of the series
SeriesContains(rows, x) == \E j \in 1..Len(rows) : rows[j].idx = x
was_marked(i) == SeriesContains(marked, IdOf(i))
was_skipped(i) == i \in Range(skipped)

\* _sample_generator is exhausted
Finish ==
    /\ pc = "loop"
    /\ unmarked_indices = <<>>
    /\ pc' = "done"
    /\ out' = Printed("All marked")
    /\ UNCHANGED << cfg, disk, err, memory, clock, label, inp, last, restarts >>

\* an iteration in the break phase: _break() prints and waits
IterBreak ==
    /\ pc = "loop"
    /\ unmarked_indices # <<>>
    /\ ModeSeen.is_break
    /\ is_break' = TRUE
    /\ current_start' = ModeSeen.current_start
    /\ pc' = "break"
    /\ out' = Printed("BREAK")
    /\ UNCHANGED << cfg, disk, err, memory, now, label, inp, last, restarts >>

\* the operator acknowledges the break
BreakAck ==
    /\ pc = "break"
    /\ pc' = "loop"
    /\ UNCHANGED << cfg, disk, err, memory, clock, label, inp, out, last, restarts >>

\* an iteration whose index was marked or skipped already
IterDiscard ==
    /\ pc = "loop"
    /\ unmarked_indices # <<>>
    /\ ~ModeSeen.is_break
    /\ was_marked(Head(unmarked_indices)) \/ was_skipped(Head(unmarked_indices))
    /\ unmarked_indices' = Pop0(unmarked_indices)
    /\ is_break' = FALSE
    /\ current_start' = ModeSeen.current_start
    /\ UNCHANGED << cfg, disk, err, pc, marked, marked_indices, action_history,
                    chars_showed, cache, session_name, now, label, inp, out,
                    last, restarts >>

\* what _show_menu adds to _chars_showed for a text
ShownByMenu(text) == IF text # NaN THEN Min(text, cfg.show_chars) ELSE 0

\* an iteration that presents the record and waits in _get_user_input
IterShow ==
    /\ pc = "loop"
    /\ unmarked_indices # <<>>
    /\ ~ModeSeen.is_break
    /\ LET i == Head(unmarked_indices) IN
        /\ ~was_marked(i)
        /\ ~was_skipped(i)
        /\ IF label # "more"
           THEN /\ chars_showed' = chars_showed + ShownByMenu(TextOf(i))
                /\ chars_showed' <= MaxChars
                /\ out' = IF TextOf(i) # NaN
                          THEN [kind |-> "text", from |-> 0,
                                to |-> Min(TextOf(i), cfg.show_chars)]
                          ELSE [kind |-> "EMPTY TEXT", from |-> 0, to |-> 0]
           ELSE UNCHANGED << chars_showed, out >>
    /\ is_break' = FALSE
    /\ current_start' = ModeSeen.current_start
    /\ pc' = "prompt"
    /\ inp' = NoInput
    /\ UNCHANGED << cfg, disk, err, unmarked_indices, marked, marked_indices,
                    action_history, cache, session_name, now, label, last, restarts >>

\* the value _get_user_input returns for a line, or Reprompt when it asks again
Reprompt == "<reprompt>"
UnknownAsMore(k) ==
    IF k \in DOMAIN input_map THEN input_map[k]
    ELSE IF StrKey(k) \in DOMAIN id2label THEN k
    ELSE "more"
get_user_input(k) ==
    IF k \in DOMAIN input_map THEN input_map[k]
    ELSE IF StrKey(k) \in DOMAIN id2label THEN k
    ELSE Reprompt

\* what the operator entered: a control keystroke or a label key
Entered(k) == IF k \in DOMAIN input_map THEN input_map[k] ELSE "labelkey"
Remember(k) ==
    last' = [e1 |-> IF Entered(k) = "back" THEN last.e2 ELSE "none",
             e2 |-> Entered(k), idx |-> Head(unmarked_indices),
             marked |-> marked, skipped |-> skipped]

\* a line that is neither a command nor a label key: the options are shown again
Unrecognized(k) ==
    /\ pc = "prompt"
    /\ get_user_input(k) = Reprompt
    /\ inp' = k
    /\ out' = Printed("options")
    /\ UNCHANGED << cfg, disk, err, pc, memory, clock, label, last, restarts >>

\* _write_skipped_cache
write_skipped_cache(c) == File(c)

\* _skip
Skip(k) ==
    /\ pc = "prompt"
    /\ get_user_input(k) = "skip"
    /\ action_history' = Append(action_history, "skip")
    /\ unmarked_indices' = Pop0(unmarked_indices)
    /\ cache' = DictSet(cache, session_name, Append(skipped, Head(unmarked_indices)))
    /\ chars_showed' = 0
    /\ disk_cache' = IF cfg.cache_skipped THEN write_skipped_cache(cache') ELSE disk_cache
    /\ out' = Printed("SKIPPED")
    /\ inp' = NoInput
    /\ label' = "skip"
    /\ Remember(k)
    /\ pc' = "loop"
    /\ UNCHANGED << cfg, disk_marked, err, marked, marked_indices, session_name,
                    clock, restarts >>

\* a _back that, finding the history empty, drops the presented record
BackDropsOnEmpty(k) ==
    /\ pc = "prompt"
    /\ get_user_input(k) = "back"
    /\ action_history = <<>>
    /\ out' = Printed("HISTORY IS EMPTY")
    /\ unmarked_indices' = Pop0(unmarked_indices)
    /\ inp' = NoInput
    /\ label' = "back"
    /\ Remember(k)
    /\ pc' = "loop"
    /\ UNCHANGED << cfg, disk, err, marked, marked_indices, action_history,
                    chars_showed, cache, session_name, clock, restarts >>

\* _back
Back(k) ==
    /\ pc = "prompt"
    /\ get_user_input(k) = "back"
    /\ IF action_history = <<>>
       THEN /\ out' = Printed("HISTORY IS EMPTY")
            /\ UNCHANGED << action_history, unmarked_indices, cache, disk_cache,
                            marked, marked_indices, chars_showed >>
       ELSE /\ action_history' = Front(action_history)
            /\ out' = Printed("BACK")
            /\ chars_showed' = 0
            /\ IF Last(action_history) = "skip"
               THEN /\ cache' = DictSet(cache, session_name, Front(skipped))
                    /\ unmarked_indices' = Insert0(unmarked_indices, Last(skipped))
                    /\ disk_cache' = write_skipped_cache(cache')
                    /\ UNCHANGED << marked, marked_indices >>
               ELSE /\ marked_indices' = Front(marked_indices)
                    /\ unmarked_indices' = Insert0(unmarked_indices, Last(marked_indices))
                    /\ marked' = Front(marked)
                    /\ UNCHANGED << cache, disk_cache >>
    /\ inp' = NoInput
    /\ label' = "back"
    /\ Remember(k)
    /\ pc' = "loop"
    /\ UNCHANGED << cfg, disk_marked, err, session_name, clock, restarts >>

\* _more
More(k) ==
    /\ pc = "prompt"
    /\ get_user_input(k) = "more"
    /\ LET text == TextOf(Head(unmarked_indices))
           start == chars_showed
           end == Min(start + cfg.show_chars, text)
       IN  IF text # NaN
           THEN IF start = text
                THEN /\ out' = Printed("END")
                     /\ chars_showed' = chars_showed
                ELSE /\ out' = [kind |-> "text", from |-> start, to |-> end]
                     /\ chars_showed' = end
           ELSE /\ out' = Printed("CAN'T SHOW MORE")
                /\ chars_showed' = chars_showed
    /\ inp' = NoInput
    /\ label' = "more"
    /\ Remember(k)
    /\ pc' = "loop"
    /\ UNCHANGED << cfg, disk, err, unmarked_indices, marked, marked_indices,
                    action_history, cache, session_name, clock, restarts >>

\* a label branch whose _write leaves the history as it is
LabelOffTheRecord(k) ==
    /\ pc = "prompt"
    /\ get_user_input(k) \notin {Reprompt, "skip", "back", "more"}
    /\ LET i == Head(unmarked_indices)
           row == [idx |-> i, id |-> IdOf(i), label |-> id2label[StrKey(k)]]
       IN  /\ marked' = Append(marked, row)
           /\ disk_marked' = File(ToCsv(marked'))
           /\ unmarked_indices' = Pop0(unmarked_indices)
           /\ marked_indices' = Append(marked_indices, i)
    /\ inp' = NoInput
    /\ label' = k
    /\ Remember(k)
    /\ pc' = "loop"
    /\ UNCHANGED << cfg, disk_cache, err, action_history, chars_showed, cache,
                    session_name, clock, out, restarts >>

\* the else branch of run(): the label is written
Label(k) ==
    /\ pc = "prompt"
    /\ get_user_input(k) \notin {Reprompt, "skip", "back", "more"}
    /\ LET i == Head(unmarked_indices)
           row == [idx |-> i, id |-> IdOf(i), label |-> id2label[StrKey(k)]]
       IN  /\ marked' = Append(marked, row)
           /\ action_history' = Append(action_history, "write")
           /\ disk_marked' = File(ToCsv(marked'))
           /\ unmarked_indices' = Pop0(unmarked_indices)
           /\ marked_indices' = Append(marked_indices, i)
    /\ inp' = NoInput
    /\ label' = k
    /\ Remember(k)
    /\ pc' = "loop"
    /\ UNCHANGED << cfg, disk_cache, err, chars_showed, cache, session_name,
                    clock, out, restarts >>

\* what the except branch of run() prints: Stopped and the three counts
Stopped ==
    [kind |-> "Stopped", marked |-> Len(marked), unmarked |-> NRows,
     skipped |-> Len(skipped)]

\* an interrupt that is raised after the queue was popped and before the
\* index is recorded: the popped index is lost
InterruptMidOperation ==
    /\ pc \in {"prompt", "break"}
    /\ pc' = "stopped"
    /\ out' = Stopped
    /\ unmarked_indices' = Pop0(unmarked_indices)
    /\ UNCHANGED << cfg, disk, err, marked, marked_indices, action_history,
                    chars_showed, cache, session_name, clock, label, inp, last,
                    restarts >>

\* KeyboardInterrupt while run() waits for a line
Interrupt ==
    /\ pc \in {"prompt", "break"}
    /\ pc' = "stopped"
    /\ out' = Stopped
    /\ UNCHANGED << cfg, disk, err, memory, clock, label, inp, last, restarts >>

\* a minute passes while the process waits for the operator (the steps
\* between two reads of a line take no time)
Tick ==
    /\ pc \in {"prompt", "break"}
    /\ now < MaxTime
    /\ now' = now + 1
    /\ UNCHANGED << cfg, disk, err, pc, memory, is_break, current_start, label,
                    inp, out, last, restarts >>

\* the process has ended and is started again with the same arguments
Restart ==
    /\ pc \in {"done", "stopped"}
    /\ restarts < MaxRestarts
    /\ restarts' = restarts + 1
    /\ pc' = "new"
    /\ unmarked_indices' = <<>>
    /\ marked' = <<>>
    /\ marked_indices' = <<>>
    /\ action_history' = <<>>
    /\ chars_showed' = 0
    /\ cache' = <<>>
    /\ session_name' = "default"
    /\ is_break' = FALSE
    /\ current_start' = 0
    /\ label' = "None"
    /\ inp' = NoInput
    /\ out' = NoOutput
    /\ last' = NoLast
    /\ err' = "none"
    /\ now' = 0
    /\ UNCHANGED << cfg, disk >>

Next ==
    \/ Construct
    \/ \E s \in SessionInputs : SessionInput(s)
    \/ RunStart
    \/ Finish
    \/ IterBreak
    \/ BreakAck
    \/ IterDiscard
    \/ IterShow
    \/ \E k \in Keystrokes : Unrecognized(k)
    \/ \E k \in Keystrokes : Skip(k)
    \/ \E k \in Keystrokes : Back(k)
    \/ \E k \in Keystrokes : More(k)
    \/ \E k \in Keystrokes : Label(k)
    \/ Interrupt
    \/ Tick

Spec == Init /\ [][Next]_vars

(***************************************************************************)
(* Sessions that resume what an earlier process left on disk: one label    *)
(* key, tables of two rows, and the process started again.                 *)
(***************************************************************************)
InitResume ==
    /\ Init
    /\ DOMAIN cfg.id2label = {StrKey("1")}
    /\ Len(cfg.table.ids) = 2

NextResume == Next \/ Restart

SpecResume == InitResume /\ [][NextResume]_vars

(***************************************************************************)
(* Properties.                                                             *)
(***************************************************************************)
\* the process is past construction: a session exists
InSession == pc \in {"ready", "loop", "prompt", "break", "done", "stopped"}
\* a step in which run() dispatches the line k the operator typed
Dispatch(k) == Skip(k) \/ Back(k) \/ More(k) \/ Label(k)
\* k is a key of id2label, not a control keystroke
IsLabelKey(k) == StrKey(k) \in DOMAIN id2label /\ k \notin DOMAIN input_map

\* C1: when the operator enters a label key for the presented record and the
\* next command is back, then after the back the record's index is at the
\* front of the queue, it is no longer recorded as marked, and the marked
\* table is the one from before the label, rows and length.
C1_LabelThenBack ==
    [][(pc = "prompt" /\ pc' = "loop" /\ last.e2 = "labelkey" /\ last'.e2 = "back")
       => /\ unmarked_indices' # <<>>
          /\ Head(unmarked_indices') = last.idx
          /\ last.idx \notin Range(marked_indices')
          /\ marked' = last.marked
          /\ Len(marked') = Len(last.marked)]_vars

\* C2: when the operator enters skip for the presented record and the next
\* command is back, then after the back the record's index is at the front of
\* the queue and not in the skip set, and the skip set is the one from before
\* the skip, contents and length.
C2_SkipThenBack ==
    [][(pc = "prompt" /\ pc' = "loop" /\ last.e2 = "skip" /\ last'.e2 = "back")
       => /\ unmarked_indices' # <<>>
          /\ Head(unmarked_indices') = last.idx
          /\ last.idx \notin Range(skipped')
          /\ skipped' = last.skipped
          /\ Len(skipped') = Len(last.skipped)]_vars

\* C2: a back has just undone the skip of a record, which is presented next
C2_Witness ==
    /\ pc = "loop"
    /\ last.e1 = "skip"
    /\ last.e2 = "back"
    /\ out.kind = "BACK"
    /\ last.skipped # <<>>
    /\ Head(unmarked_indices) = Last(last.skipped)
    /\ skipped = Front(last.skipped)

\* the record of index i is in the marked table, by identifier
IsMarked(i) == \E j \in 1..Len(marked) : marked[j].id = IdOf(i)
InQueue(i) == i \in Range(unmarked_indices)
InSkipSet(i) == i \in Range(skipped)

\* C3: in every state of a session every index of the unmarked table is in
\* exactly one of the queue, the skip set and the marked records.
C3_Partition ==
    InSession =>
        \A i \in 0..(NRows - 1) :
            /\ InQueue(i) \/ InSkipSet(i) \/ IsMarked(i)
            /\ ~(InQueue(i) /\ InSkipSet(i))
            /\ ~(InQueue(i) /\ IsMarked(i))
            /\ ~(InSkipSet(i) /\ IsMarked(i))

\* C4: when the process is started again and the operator chooses a session
\* name that cache.json holds, the indices cache.json lists as skipped for
\* that session are in the loaded skip set and are not in front of the queue
\* to be offered.
C4_ResumeSkipped ==
    (pc = "ready" /\ restarts > 0 /\ disk_cache.exists
        /\ HasKey(disk_cache.rows, session_name))
    => \A i \in Range(DictGet(disk_cache.rows, session_name)) :
           /\ i \in Range(skipped)
           /\ was_skipped(i)

\* the unmarked rows whose identifier is in the marked destination
AlreadyMarked ==
    { i \in 0..(NRows - 1) :
        disk_marked.exists
        /\ \E j \in 1..Len(disk_marked.rows) : disk_marked.rows[j].id = IdOf(i) }

\* C5 as stated: at the start of a session the queue is as long as the
\* unmarked table less the rows whose identifier is in the marked destination.
C5_QueueLessMarked ==
    pc \in {"session_prompt", "ready"} =>
        Len(unmarked_indices) = NRows - Cardinality(AlreadyMarked)

\* C5 amended: at the start of a session the queue holds every index of the
\* unmarked table once, so its length is the number of unmarked rows, whatever
\* the marked destination holds.
C5_QueueHoldsAll ==
    pc \in {"session_prompt", "ready"} =>
        /\ Len(unmarked_indices) = NRows
        /\ Range(unmarked_indices) = 0..(NRows - 1)

\* C5: a session starts over a marked destination that holds an unmarked row
C5_Witness ==
    /\ pc = "ready"
    /\ restarts > 0
    /\ AlreadyMarked # {}
    /\ Len(unmarked_indices) = NRows

\* C6: when the operator enters the label key k for the presented record, the
\* last marked row is that record with the label id2label[k], the file holds
\* the whole marked table, the index has left the front of the queue and
\* "write" is on top of the history.
C6_LabelDispatch ==
    [][\A k \in Keystrokes :
        (pc = "prompt" /\ IsLabelKey(k) /\ Dispatch(k))
        => /\ marked' # <<>>
           /\ Last(marked').idx = Head(unmarked_indices)
           /\ Last(marked').id = IdOf(Head(unmarked_indices))
           /\ Last(marked').label = id2label[StrKey(k)]
           /\ disk_marked' = File(ToCsv(marked'))
           /\ unmarked_indices' = Tail(unmarked_indices)
           /\ action_history' # <<>>
           /\ Last(action_history') = "write"]_vars

\* C7: a line that is neither a control keystroke nor a label key changes
\* nothing: the options are shown, the operator is asked again, and the
\* queue, the marked table, the skip set, the history and the shown-character
\* counter stay as they are.
C7_UnknownInput ==
    [][\A k \in Keystrokes :
        (pc = "prompt" /\ k \notin DOMAIN input_map /\ StrKey(k) \notin DOMAIN id2label
            /\ (Unrecognized(k) \/ Dispatch(k)))
        => /\ pc' = "prompt"
           /\ out'.kind = "options"
           /\ UNCHANGED << unmarked_indices, marked, marked_indices, cache,
                           session_name, action_history, chars_showed, disk >>]_vars

\* C7: the operator typed an unknown line and is asked again
C7_Witness ==
    /\ pc = "prompt"
    /\ inp = "x"
    /\ out.kind = "options"
    /\ action_history # <<>>

\* C8: within a record view a more prints from the offset where the previous
\* output for the record ended, the offset does not decrease, and END is
\* reported exactly when the offset is the length of the text.
C8_MoreMonotonic ==
    [][\A k \in Keystrokes :
        (More(k) /\ TextOf(Head(unmarked_indices)) # NaN)
        => /\ chars_showed' >= chars_showed
           /\ out'.kind = "text" => out'.from = out.to
           /\ out'.kind = "END" <=> out.to = TextOf(Head(unmarked_indices))]_vars

\* the ValueErrors of _check_values about the session and break lengths
TimingErrors ==
    { "label_session_minutes exists, but break_minutes doesn't",
      "break_minutes exists, but label_session_minutes doesn't",
      "label_session_minutes should be int",
      "break_minutes should be int",
      "label_session_minutes should be > 1",
      "break_minutes should be > 1" }
Configured(x) == x # None
PositiveInt(x) == x.t = "int" /\ x.v >= 1
KeysValid ==
    \A k \in DOMAIN cfg.id2label : k.isStr /\ k.s \notin DOMAIN input_map

\* C9: construction raises a timing error exactly when only one of the two
\* lengths is configured or a configured length is not a positive integer;
\* with neither configured it raises none.
C9_TimingPaired ==
    (pc # "new" /\ KeysValid) =>
        LET lsm == cfg.label_session_minutes
            bm == cfg.break_minutes
        IN  (err \in TimingErrors)
            <=> \/ Configured(lsm) # Configured(bm)
                \/ Configured(lsm) /\ ~PositiveInt(lsm)
                \/ Configured(bm) /\ ~PositiveInt(bm)

\* C10: with cache_skipped False and arguments that pass _check_values,
\* initialization ends without error and the skip set is empty.
C10_NoCache ==
    (pc # "new" /\ ~cfg.cache_skipped /\ check_values(cfg) = "none") =>
        /\ pc # "error"
        /\ err = "none"
        /\ skipped = <<>>

\* the ValueErrors of _check_values about the keys of id2label
KeyErrors == { "already present in commands", "is not string" }
\* every ValueError of _check_values
ConfigErrors == KeyErrors \cup TimingErrors
\* k is a string of one character
SingleChar(k) == k.isStr /\ Len(k.s) = 1

\* C11: whenever id2label has a key that is not a string of one character
\* (not a string, or a string of another length), construction ends in a
\* configuration error.
C11_KeyNotSingleChar ==
    (pc # "new" /\ \E k \in DOMAIN cfg.id2label : ~SingleChar(k)) =>
        /\ pc = "error"
        /\ err \in ConfigErrors

\* a step taken while run() waits for a line that is neither the passing of
\* time nor a line the operator typed: the operator interrupted
Interrupted ==
    /\ pc \in {"prompt", "break"}
    /\ ~Tick
    /\ ~BreakAck
    /\ ~\E k \in Keystrokes : Unrecognized(k) \/ Dispatch(k)

\* C12: an interrupt while run() waits for a keystroke or for the
\* acknowledgment of a break is caught: run() prints Stopped with the numbers
\* of marked rows, unmarked rows and skipped indices and returns without an
\* error, and the queue, the marked table, the skip set and the history are
\* the ones the process was waiting with.
C12_InterruptCaught ==
    [][Interrupted
       => /\ pc' = "stopped"
          /\ err' = "none"
          /\ out' = [kind |-> "Stopped", marked |-> Len(marked),
                     unmarked |-> Len(unmarked.ids), skipped |-> Len(skipped)]
          /\ UNCHANGED << unmarked_indices, marked, marked_indices, cache,
                          session_name, action_history, disk >>]_vars

\* C12: run() was interrupted with marked rows, skipped indices and a
\* non-empty queue, and has reported the counts
C12_Witness ==
    /\ pc = "stopped"
    /\ out.kind = "Stopped"
    /\ marked # <<>>
    /\ skipped # <<>>
    /\ unmarked_indices # <<>>
    /\ action_history # <<>>

\* C13: a back entered with an empty history raises nothing and leaves the
\* queue, the marked table, the skip set and the history as they are; the
\* loop goes on with the same record in front, which is neither marked nor
\* skipped and so is presented again.
C13_BackOnEmptyHistory ==
    [][(pc = "prompt" /\ pc' = "loop" /\ label' = "back" /\ action_history = <<>>)
       => /\ err' = "none"
          /\ out'.kind = "HISTORY IS EMPTY"
          /\ UNCHANGED << unmarked_indices, marked, marked_indices, cache,
                          session_name, action_history, disk >>
          /\ unmarked_indices' # <<>>
          /\ ~SeriesContains(marked', IdOf(Head(unmarked_indices')))
          /\ Head(unmarked_indices') \notin Range(skipped')]_vars

\* C13: a back was entered with an empty history and the loop goes on
C13_Witness ==
    /\ pc = "loop"
    /\ label = "back"
    /\ last.e2 = "back"
    /\ out.kind = "HISTORY IS EMPTY"
    /\ action_history = <<>>
    /\ unmarked_indices # <<>>

\* C14: an index leaves the queue without being presented only when its
\* record's identifier is the identifier of a row of the marked table or the
\* index is in the skip set; and when run() ends with All marked, every
\* unmarked row is in the marked table by identifier or in the skip set.
C14_NoRowLost ==
    [][/\ (pc = "loop" /\ pc' = "loop" /\ unmarked_indices # <<>>
            /\ unmarked_indices' = Tail(unmarked_indices))
          => \/ IsMarked(Head(unmarked_indices))
             \/ InSkipSet(Head(unmarked_indices))
       /\ (pc = "loop" /\ pc' = "done")
          => \A i \in 0..(NRows - 1) : IsMarked(i) \/ InSkipSet(i)]_vars

PhaseLimit == IF is_break THEN cfg.break_minutes.v ELSE cfg.label_session_minutes.v
\* the queue, the marked table, the skip set, the history and the files
SessionData ==
    << unmarked_indices, marked, marked_indices, cache, session_name,
       action_history, disk >>

\* C16: the break flag changes only when the time spent in the current phase
\* has reached the phase's limit; while it is set no record is presented and
\* no line is dispatched, an iteration that leaves it set prints BREAK and
\* waits for the acknowledgment, and the queue, the marked table, the skip
\* set and the history stay as they are as long as the flag stays set.
C16_BreakPhase ==
    [][/\ (is_break' # is_break) => (now - current_start >= PhaseLimit)
       /\ is_break => /\ pc # "prompt"
                      /\ ~\E k \in Keystrokes : Unrecognized(k) \/ Dispatch(k)
                      /\ (pc' = "prompt") => ~is_break'
       /\ (is_break /\ is_break') => UNCHANGED SessionData
       /\ (pc = "loop" /\ pc' # "done" /\ is_break')
          => /\ pc' = "break"
             /\ out'.kind = "BREAK"
             /\ UNCHANGED SessionData]_vars

\* C16: the session is in a break that follows labeled and skipped records
\* and is not over yet
C16_Witness ==
    /\ pc = "break"
    /\ is_break
    /\ out.kind = "BREAK"
    /\ now - current_start < cfg.break_minutes.v
    /\ marked # <<>>
    /\ skipped # <<>>
    /\ unmarked_indices # <<>>

\* C17: once the marked destination exists, after every completed operation
\* of the loop (label, skip, back, more) the file holds exactly the rows of
\* the marked table in memory.
C17_FileIsMarkedTable ==
    (pc \in {"loop", "prompt", "break", "done", "stopped"} /\ disk_marked.exists)
    => disk_marked.rows = ToCsv(marked)

\* C18: every time a record with text is rendered by the menu (not after a
\* more), the shown-character counter after the rendering is the smaller of
\* the length of the text and show_chars, the number of characters displayed.
C18_RenderCounter ==
    [][(pc = "loop" /\ pc' = "prompt" /\ label # "more"
            /\ TextOf(Head(unmarked_indices)) # NaN)
       => /\ out'.kind = "text"
          /\ chars_showed' = Min(TextOf(Head(unmarked_indices)), cfg.show_chars)
          /\ chars_showed' = out'.to - out'.from]_vars

\* C19: the identifiers of the unmarked rows being unique, the marked table
\* never holds two rows with the same identifier, and the record the operator
\* is asked to label is never one whose identifier is in the marked table;
\* this holds for sessions resumed over an existing marked file as well.
C19_NoDoubleLabel ==
    /\ \A j1, j2 \in 1..Len(marked) : (j1 # j2) => (marked[j1].id # marked[j2].id)
    /\ (pc = "prompt") => ~IsMarked(Head(unmarked_indices))

\* the number of entries e in the history h
Count(h, e) == Cardinality({ j \in 1..Len(h) : h[j] = e })
\* the history agrees with the lists _back pops from: as many "write" as
\* indices marked in this session, no more than rows in the marked table, the
\* last rows of which are those indices in order, and no more "skip" than
\* skipped indices
HistoryConsistent ==
    /\ Count(action_history, "write") = Len(marked_indices)
    /\ Len(marked_indices) <= Len(marked)
    /\ \A j \in 1..Len(marked_indices) :
           marked[Len(marked) - Len(marked_indices) + j].idx = marked_indices[j]
    /\ Count(action_history, "skip") <= Len(skipped)
    /\ Count(action_history, "write") + Count(action_history, "skip")
           = Len(action_history)

\* C20: whenever the operator is prompted the history is consistent with the
\* indices marked in this session, the marked table and the skip set; and a
\* back with a non-empty history pops from non-empty lists exactly the most
\* recent skip or label that was not undone yet and puts its index in front
\* of the queue.
C20_UndoHistory ==
    [][/\ (pc' = "prompt") => HistoryConsistent'
       /\ (pc = "prompt" /\ pc' = "loop" /\ label' = "back" /\ action_history # <<>>)
          => /\ action_history' = Front(action_history)
             /\ (Last(action_history) = "skip")
                => /\ skipped # <<>>
                   /\ skipped' = Front(skipped)
                   /\ unmarked_indices' = << Last(skipped) >> \o unmarked_indices
                   /\ UNCHANGED << marked, marked_indices >>
             /\ (Last(action_history) = "write")
                => /\ marked_indices # <<>>
                   /\ marked # <<>>
                   /\ Last(marked).idx = Last(marked_indices)
                   /\ marked_indices' = Front(marked_indices)
                   /\ marked' = Front(marked)
                   /\ unmarked_indices' = << Last(marked_indices) >> \o unmarked_indices
                   /\ skipped' = skipped]_vars

\* C20: the operator is prompted after a back undid the later of a label and
\* a skip, with the earlier one still on the history
C20_Witness ==
    /\ pc = "prompt"
    /\ last.e2 = "back"
    /\ last.e1 \in {"skip", "labelkey"}
    /\ Len(action_history) = 1
    /\ Len(marked_indices) + Len(skipped) = 1
    /\ Len(last.marked) + Len(last.skipped) = 2

(***************************************************************************)
(* Runs of a constructed session to their end: the steps of the process    *)
(* are taken when they can be, and a break lasts its minutes whatever the  *)
(* clock shows when it starts.                                             *)
(***************************************************************************)
InitLive ==
    /\ Init
    /\ check_values(cfg) = "none"
    /\ cfg.cache_skipped
    /\ Len(cfg.table.ids) = 2

\* a minute passes in a break that started when the clock was at MaxTime
BreakTick ==
    /\ pc = "break"
    /\ now >= MaxTime
    /\ now - current_start < cfg.break_minutes.v
    /\ now' = now + 1
    /\ UNCHANGED << cfg, disk, err, pc, memory, is_break, current_start, label,
                    inp, out, last, restarts >>

NextLive == Next \/ BreakTick

\* the steps run() takes by itself, without waiting for the operator
ProgramStep == RunStart \/ Finish \/ IterBreak \/ IterDiscard \/ IterShow

\* the interpreter runs the loop on; time.time() grows while _break waits
Fairness ==
    /\ WF_vars(ProgramStep)
    /\ SF_vars((Tick \/ BreakTick) /\ pc = "break")

SpecLive == InitLive /\ [][NextLive]_vars /\ Fairness

\* the operator types the line k, a label key or the skip keystroke
EntersLabelOrSkip(k) ==
    /\ IsLabelKey(k) \/ k = skip_input
    /\ Dispatch(k) \/ Unrecognized(k)
\* the operator types any other line
EntersOther ==
    \E k \in Keystrokes :
        /\ ~(IsLabelKey(k) \/ k = skip_input)
        /\ Dispatch(k) \/ Unrecognized(k)
\* the operator of the claim: answers every prompt and every break, and from
\* some point on types label keys and skips only
OperatorLabelsOrSkips ==
    /\ WF_vars(\E k \in Keystrokes : EntersLabelOrSkip(k))
    /\ WF_vars(BreakAck)
    /\ <>[][~EntersOther]_vars
\* the next presentation would take the shown-character counter over MaxChars
BeyondMaxChars ==
    /\ pc = "loop"
    /\ unmarked_indices # <<>>
    /\ label # "more"
    /\ chars_showed + ShownByMenu(TextOf(Head(unmarked_indices))) > MaxChars

\* C21: outside a break every iteration that discards an index and every
\* dispatch of a label key or of skip makes the queue shorter by one; a run
\* whose operator from some point on enters label keys and skips only, and
\* does not interrupt, ends with All marked (the runs considered keep the
\* shown-character counter within MaxChars); and when run() has ended so,
\* the queue is empty.
C21_Termination ==
    /\ [][/\ (pc = "loop" /\ pc' = "loop" /\ unmarked_indices' # unmarked_indices)
             => Len(unmarked_indices') = Len(unmarked_indices) - 1
          /\ \A k \in Keystrokes :
                (pc = "prompt" /\ EntersLabelOrSkip(k))
                => Len(unmarked_indices') = Len(unmarked_indices) - 1]_vars
    /\ (OperatorLabelsOrSkips /\ []~BeyondMaxChars)
       => [](pc = "loop" => <>(pc \in {"done", "stopped"}))
    /\ [](pc = "done" => unmarked_indices = <<>>)

====
